---- MODULE Spec2Model ----
(***************************************************************************)
(* Indicator synchronisation of the desktop shell (src/preload.cjs): the   *)
(* privileged process' sync passes (performDownloadIndicators), the        *)
(* periodic check (checkAndUpdateIndicators), the credential handlers, the *)
(* local indicator store and the events pushed to the renderer.            *)
(*                                                                         *)
(* Strings whose content matters are sequences of tokens: a version is a   *)
(* sequence of characters (so that trim is computed), a repository path a  *)
(* sequence of path tokens (so that startsWith / endsWith / toLowerCase    *)
(* are computed).                                                          *)
(***************************************************************************)
EXTENDS Integers, Sequences, FiniteSets, TLC

\* ------------------------------------------------------------------ bounds
\* Number of sync passes / checks that can be in flight at the same time.
MaxPasses == 2
\* Longest remote tree listing that is enumerated.
MaxTreeLen == 2

\* --------------------------------------------------------------- constants
Null == "null"                       \* JS null / undefined, where a string is expected
NullV == <<"null">>                  \* JS null / undefined, where a version is expected
NoFile == "nofile"                   \* a path with no file behind it
NoMarker == <<"nofile">>             \* no indicator_version file
Passes == 1 .. MaxPasses
Roots == {"install", "userData"}     \* execDir/indicators, userData/indicators

AUTO_OWNER == "xmcllabs"
AUTO_REPO == "Indicators"
Prefix == <<"indicators", "/">>      \* 'indicators/'
Ext == ".json"

VARIABLES
  isDev,        \* electron-is-dev, fixed for the process run
  keytar,       \* TRUE iff require('keytar') succeeded
  installProbe, \* what the probe of execDir/indicators answers in this run
  mainWindow,   \* TRUE iff mainWindow (and its webContents) is set
  stored,       \* the token held by the platform store, or Null
  dirs,         \* the store roots whose directory exists
  marker,       \* marker[root]: content of root/indicator_version, or NoMarker
  files,        \* files[root][path]: bytes of root/path, or NoFile
  pass          \* pass[p]: one invocation of the check / the sync pass

vars == <<isDev, keytar, installProbe, mainWindow, stored, dirs, marker, files, pass>>

\* ----------------------------------------------------------------- strings
\* String.prototype.trim on a character sequence.
RECURSIVE TrimLeft(_)
TrimLeft(s) ==
  IF s = <<>> THEN <<>>
  ELSE IF Head(s) = " " THEN TrimLeft(Tail(s)) ELSE s

RECURSIVE TrimRight(_)
TrimRight(s) ==
  IF s = <<>> THEN <<>>
  ELSE IF s[Len(s)] = " " THEN TrimRight(SubSeq(s, 1, Len(s) - 1)) ELSE s

Trim(s) == TrimRight(TrimLeft(s))

\* JS truthiness of a string-or-null value (a token, a name).
Truthy(v) == v # Null /\ v # ""
\* A test that takes the empty string for a version.
NotNullV(v) == v # NullV

\* JS truthiness of a version (a character sequence or null).
TruthyV(v) == v # NullV /\ v # <<>>

\* String.prototype.toLowerCase on one path token.
LowerTok(t) == IF t = ".JSON" THEN ".json" ELSE t

StartsWith(p, pre) == Len(p) >= Len(pre) /\ SubSeq(p, 1, Len(pre)) = pre

EndsWithLower(p, ext) == Len(p) >= 1 /\ LowerTok(p[Len(p)]) = ext

\* ------------------------------------------------------------- remote data
PathA == <<"indicators", "/", "a", ".json">>
PathB == <<"indicators", "/", "b", ".JSON">>
\* The entries a remote tree can list, in the order the listing gives them.
Listing ==
  << [path |-> <<"indicators">>, type |-> "tree"],
     [path |-> PathA, type |-> "blob"],
     [path |-> PathB, type |-> "blob"],
     [path |-> <<"other", "/", "a", ".json">>, type |-> "blob"],
     [path |-> <<"indicators", "/", "readme", ".md">>, type |-> "blob"] >>

\* Remote trees: the sub-listings of at most MaxTreeLen entries.
Trees ==
  UNION { { [k \in 1 .. n |-> Listing[ix[k]]] :
              ix \in { f \in [1 .. n -> 1 .. Len(Listing)] :
                         \A k \in 1 .. n - 1 : f[k] < f[k + 1] } } :
          n \in 0 .. MaxTreeLen }

IndicatorPaths == {PathA, PathB}

\* Bodies the version URL can answer with; versions a caller can supply.
RemoteBodies == {<<" ">>, <<"1">>, <<" ", "2">>}
ManualVersions == {NullV, <<"2", " ">>}
CallerTokens == {Null, "tA"}
StoreTokens == {"tS"}

\* ------------------------------------------------------ local store helpers
\* ensureDir: mkdirSync recursive, failures are logged and swallowed. mkOk
\* is whether the file system lets the directory be created.
ensureDir(d, mkOk, ds) == IF mkOk THEN ds \cup {d} ELSE ds

\* What mkdirSync of userData/indicators answers: the per-user directory can
\* always be created.
MkdirOutcomes == {TRUE}

\* What the file system answers to the probe of the directory next to the
\* executable (mkdirSync, write and unlink of .write_test).
ProbeOutcomes == {"ok", "fail"}

\* getIndicatorsDir: in production the directory next to the executable when
\* the probe succeeds, else userData/indicators (created if possible).
getIndicatorsDir(dev, probe, mkOk, ds) ==
  IF ~dev /\ probe = "ok"
  THEN [dir |-> "install", dirs |-> ds \cup {"install"}]
  ELSE [dir |-> "userData", dirs |-> ensureDir("userData", mkOk, ds)]

\* readInstalledIndicatorVersion, given the resolved directory.
readInstalledIndicatorVersion(dir, mk, readOk) ==
  IF mk[dir] = NoMarker THEN NullV
  ELSE IF ~readOk THEN NullV
  ELSE IF Trim(mk[dir]) = <<>> THEN NullV ELSE Trim(mk[dir])

\* ------------------------------------------------------------ pass records
\* Position of one invocation (pc):
\*   idle      no invocation in this slot
\*   verFetch  checkAndUpdateIndicators awaits fetchText(REMOTE_VERSION_URL)
\*   autoTok   checkAndUpdateIndicators awaits keytar.getPassword
\*   tok       performDownloadIndicators awaits keytar.getPassword
\*   listing   performDownloadIndicators awaits fetchJson(api)
\*   content   performDownloadIndicators awaits fetchJson(contentUrl) of item i
\*   done      the invocation has returned
\* The other fields are the locals of the invocation (opts, remoteVer, token,
\* indicatorsDir, jsonFiles, i, downloaded, errors), what it returned (result)
\* and a record of what it did and met:
\*   events       the messages sent to the renderer
\*   dropped      a message was not sent for lack of a window
\*   reqs         the https requests issued
\*   credReads    the number of keytar.getPassword calls
\*   fate         what becomes of the outstanding request, when decided ahead
\*   installedVer what readInstalledIndicatorVersion returned to the check
\*   listResp     what the tree listing call answered
\*   failed       the paths whose fetch or write the environment failed
\*   markerWrite  what the file system answered to the write of the marker
\*   touched      the kinds of store objects performDownloadIndicators
\*                created or changed
\*   tree         treeResp.tree as received, when the exploration keeps it
\*   bytes        the bytes written for each path of `downloaded`
\* An invocation of another gateway handler takes a slot too, with
\*   arg          the relPath argument of read-indicator-file
\*   reply        the value the handler returned
\*   fault        the keytar call of the handler threw
\*   readFrom     where read-indicator-file read: none, store or outside
\*   listed       the paths list-indicator-files returned
\* and an automatic check started by the module itself has
\*   trigger      what started it: load (an initialisation block at module
\*                load) or timer (a setInterval callback)

\* Options a renderer can pass to downloadIndicators; a missing field (and a
\* missing opts object) reads as '' / null.
ManualOpts ==
  [owner : {"", AUTO_OWNER}, repo : {"", AUTO_REPO},
   token : CallerTokens, version : ManualVersions]

NoOpts == [owner |-> "", repo |-> "", token |-> Null, version |-> NullV]

AutoOpts(tok, ver) ==
  [owner |-> AUTO_OWNER, repo |-> AUTO_REPO, token |-> tok, version |-> ver]

\* String(err && err.message) of a caught exception: its text is not modelled.
ErrMessage == "err.message"

\* Results returned by performDownloadIndicators (NoResult: none returned).
NoResult ==
  [success |-> FALSE, error |-> "no result", downloaded |-> 0,
   errors |-> <<>>, dir |-> Null]
FailResult(msg) ==
  [success |-> FALSE, error |-> msg, downloaded |-> 0, errors |-> <<>>,
   dir |-> Null]
OkResult(r) ==
  [success |-> TRUE, error |-> Null, downloaded |-> Len(r.downloaded),
   errors |-> r.errors, dir |-> r.indicatorsDir]

Unread == <<"unread">>

IdlePass ==
  [pc |-> "idle", kind |-> Null, opts |-> NoOpts, remoteVer |-> NullV,
   token |-> Null, indicatorsDir |-> Null, jsonFiles |-> <<>>, i |-> 0,
   downloaded |-> <<>>, errors |-> <<>>, result |-> NoResult,
   events |-> <<>>, dropped |-> FALSE, reqs |-> <<>>, credReads |-> 0,
   fate |-> "any", installedVer |-> Unread, listResp |-> Null,
   failed |-> <<>>, markerWrite |-> "none", touched |-> {},
   tree |-> <<>>, bytes |-> <<>>, arg |-> <<>>, reply |-> Null,
   fault |-> FALSE, readFrom |-> "none", listed |-> {},
   trigger |-> Null]

\* Messages to the renderer.
EvStart(total) ==
  [type |-> "indicators-download-start", total |-> total, current |-> 0,
   path |-> <<>>, result |-> NoResult, version |-> NullV]
\* A progress message that counts from zero.
EvProgressZeroBased(current, total, path) ==
  [type |-> "indicators-download-progress", total |-> total,
   current |-> current - 1, path |-> path, result |-> NoResult,
   version |-> NullV]

EvProgress(current, total, path) ==
  [type |-> "indicators-download-progress", total |-> total,
   current |-> current, path |-> path, result |-> NoResult,
   version |-> NullV]
EvComplete(result) ==
  [type |-> "indicators-download-complete", total |-> 0, current |-> 0,
   path |-> <<>>, result |-> result, version |-> NullV]
EvUpdated(result, ver) ==
  [type |-> "indicators-updated", total |-> 0, current |-> 0,
   path |-> <<>>, result |-> result, version |-> ver]

\* if (mainWindow && mainWindow.webContents) mainWindow.webContents.send(...)
Send(r, win, ev) ==
  IF win THEN [r EXCEPT !.events = Append(@, ev)]
  ELSE [r EXCEPT !.dropped = TRUE]

\* Requests issued through https.get; auth is the Authorization header.
ReqVersion == [kind |-> "version", path |-> <<>>, auth |-> Null]
ReqTree(tok) ==
  [kind |-> "tree", path |-> <<>>, auth |-> IF Truthy(tok) THEN tok ELSE Null]
\* A content request that carries no Authorization header.
ReqContentNoAuth(path, tok) ==
  [kind |-> "content", path |-> path, auth |-> Null]

ReqContent(path, tok) ==
  [kind |-> "content", path |-> path,
   auth |-> IF Truthy(tok) THEN tok ELSE Null]

\* A transport whose requests have no 'timeout' handler.
SettlesNoTimeout(ev) == ev \in {"end", "error"}

\* fetchJson / fetchText settle their promise when the response ends, on
\* 'error' and on 'timeout' (after which the request is destroyed).
Settles(ev) == ev \in {"end", "error", "timeout"}

\* The transport event behind an answer of kind `kind`.
TransportEvent(kind) == IF kind \in {"error", "timeout"} THEN kind ELSE "end"

\* An answer of this kind is what a request with this fate gets.
Answers(fate, kind) == fate = "any" \/ fate = TransportEvent(kind)

\* A return after which the automatic check reports successes only.
ReturnUpdatedOnSuccess(r, win, res) ==
  LET r1 == [r EXCEPT !.result = res, !.pc = "done"]
  IN IF r.kind = "auto" /\ res.success
     THEN Send(r1, win, EvUpdated(res, r.remoteVer)) ELSE r1

\* performDownloadIndicators returns `res`. The automatic check then sends
\* indicators-updated in the same turn of the event loop.
Return(r, win, res) ==
  LET r1 == [r EXCEPT !.result = res, !.pc = "done"]
  IN IF r.kind = "auto" THEN Send(r1, win, EvUpdated(res, r.remoteVer)) ELSE r1

\* A filter that takes every blob ending in '.json', wherever it is.
IsJsonBlob(e) == e.type = "blob" /\ EndsWithLower(e.path, Ext)

\* treeResp.tree.filter(...): blobs under 'indicators/' ending in '.json'.
IsIndicatorJson(e) ==
  e.type = "blob" /\ StartsWith(e.path, Prefix) /\ EndsWithLower(e.path, Ext)

RECURSIVE FilterJson(_)
FilterJson(t) ==
  IF t = <<>> THEN <<>>
  ELSE IF IsIndicatorJson(Head(t)) THEN <<Head(t)>> \o FilterJson(Tail(t))
  ELSE FilterJson(Tail(t))

\* A configuration check that tests the owner only.
MissingConfigOwnerOnly(o) == ~Truthy(o.owner)

\* --------------------------------------------- performDownloadIndicators
\* if (!owner || !repo) return { success: false, error: ... }
MissingConfig(o) == ~Truthy(o.owner) \/ ~Truthy(o.repo)

\* Resolve and ensure the indicators directory, build the headers and issue
\* the tree listing request.
Prepare(r, tok, dev, probe, mkOk, ds, fate) ==
  LET g == getIndicatorsDir(dev, probe, mkOk, ds)
      ds2 == ensureDir(g.dir, mkOk, g.dirs)
  IN [pass |-> [r EXCEPT !.pc = "listing", !.token = tok,
                         !.indicatorsDir = g.dir,
                         !.reqs = Append(@, ReqTree(tok)),
                         !.fate = fate,
                         !.touched = IF ds2 # ds THEN @ \cup {"dir"} ELSE @],
      dirs |-> ds2]

\* An entry that gives up when it has no token and no credential store.
EnterNeedsKeytar(r, o, kt, win, dev, probe, mkOk, ds, fate) ==
  LET r0 == [r EXCEPT !.opts = o]
      tok == IF Truthy(o.token) THEN o.token ELSE Null
  IN IF MissingConfig(o)
     THEN [pass |-> Return(r0, win, FailResult("missing owner or repo")),
           dirs |-> ds]
     ELSE IF tok = Null /\ kt
     THEN [pass |-> [r0 EXCEPT !.pc = "tok", !.credReads = @ + 1,
                               !.fate = "any"],
           dirs |-> ds]
     ELSE IF tok = Null
     THEN [pass |-> Return(r0, win, FailResult(ErrMessage)), dirs |-> ds]
     ELSE Prepare(r0, tok, dev, probe, mkOk, ds, fate)

\* Entry of performDownloadIndicators(o), up to its first await.
Enter(r, o, kt, win, dev, probe, mkOk, ds, fate) ==
  LET r0 == [r EXCEPT !.opts = o]
      tok == IF Truthy(o.token) THEN o.token ELSE Null
  IN IF MissingConfig(o)
     THEN [pass |-> Return(r0, win, FailResult("missing owner or repo")),
           dirs |-> ds]
     ELSE IF tok = Null /\ kt
     THEN [pass |-> [r0 EXCEPT !.pc = "tok", !.credReads = @ + 1,
                               !.fate = "any"],
           dirs |-> ds]
     ELSE Prepare(r0, tok, dev, probe, mkOk, ds, fate)

\* A failed listing taken for an empty tree: the pass ends as a success.
OnListingFailureAsEmpty(r, win, kind) ==
  LET r1 == [r EXCEPT !.listResp = kind]
      res == OkResult(r1)
  IN Return(Send(r1, win, EvComplete(res)), win, res)

\* The tree listing failed: a rejected fetchJson is caught, reported with
\* indicators-download-complete and returned; a response without a tree is
\* returned only.
OnListingFailure(r, win, kind) ==
  LET r1 == [r EXCEPT !.listResp = kind]
      res == FailResult(ErrMessage)
  IN IF kind = "notree"
     THEN Return(r1, win, FailResult("no tree"))
     ELSE Return(Send(r1, win, EvComplete(res)), win, res)

\* A version write that is skipped when a file failed.
WriteVersionIfClean(r, wrOk, ds, mk) ==
  IF TruthyV(r.opts.version) /\ wrOk /\ r.indicatorsDir \in ds
     /\ r.errors = <<>>
  THEN [mk EXCEPT ![r.indicatorsDir] = r.opts.version]
  ELSE mk

\* A version write without the `opts.version` guard.
WriteVersionUnguarded(r, wrOk, ds, mk) ==
  IF wrOk /\ r.indicatorsDir \in ds
  THEN [mk EXCEPT ![r.indicatorsDir] = r.opts.version]
  ELSE mk

\* A version write that appends to the marker file.
WriteVersionAppend(r, wrOk, ds, mk) ==
  IF TruthyV(r.opts.version) /\ wrOk /\ r.indicatorsDir \in ds
  THEN [mk EXCEPT ![r.indicatorsDir] =
          IF @ = NoMarker THEN r.opts.version ELSE @ \o r.opts.version]
  ELSE mk

\* A version write that is skipped when no file was written.
WriteVersionIfDownloaded(r, wrOk, ds, mk) ==
  IF TruthyV(r.opts.version) /\ wrOk /\ r.indicatorsDir \in ds
     /\ r.downloaded # <<>>
  THEN [mk EXCEPT ![r.indicatorsDir] = r.opts.version]
  ELSE mk

\* if (opts && opts.version) writeFileSync(indicator_version, String(version))
\* inside try/catch: wrOk is whether the file system lets the write succeed.
WriteVersion(r, wrOk, ds, mk) ==
  IF TruthyV(r.opts.version) /\ wrOk /\ r.indicatorsDir \in ds
  THEN [mk EXCEPT ![r.indicatorsDir] = r.opts.version]
  ELSE mk

\* An end of pass that returns the result without sending it.
FinalizeSilent(r, win, wrOk, ds, mk) ==
  [pass |-> Return([r EXCEPT !.fate = "any"], win, OkResult(r)),
   marker |-> WriteVersion(r, wrOk, ds, mk)]

\* After the loop: version file, result, indicators-download-complete, return.
Finalize(r, win, wrOk, ds, mk) ==
  LET res == OkResult(r)
      mk2 == WriteVersion(r, wrOk, ds, mk)
      r1 == [r EXCEPT !.markerWrite =
                        IF ~TruthyV(r.opts.version) THEN "none"
                        ELSE IF wrOk /\ r.indicatorsDir \in ds THEN "ok"
                        ELSE "failed",
                      !.touched = IF mk2 # mk THEN @ \cup {"marker"} ELSE @,
                      !.fate = "any"]
  IN [pass |-> Return(Send(r1, win, EvComplete(res)), win, res),
      marker |-> mk2]

\* A loop that asks once more for the first file that failed.
AdvanceRetry(r, win, wrOk, ds, mk, fate) ==
  IF /\ r.i > 0
     /\ Len(r.errors) = 1
     /\ r.errors[1].path = r.jsonFiles[r.i].path
     /\ Len(r.reqs) < 4
     /\ r.reqs[Len(r.reqs)].path = r.jsonFiles[r.i].path
     /\ \A k \in 1 .. Len(r.reqs) - 1 :
          r.reqs[k].path # r.jsonFiles[r.i].path
  THEN [pass |-> [r EXCEPT !.pc = "content",
                    !.reqs = Append(@, ReqContent(r.jsonFiles[r.i].path,
                                                  r.token)),
                    !.fate = fate],
        marker |-> mk]
  ELSE IF r.i < Len(r.jsonFiles)
  THEN [pass |-> [r EXCEPT !.pc = "content", !.i = @ + 1,
                    !.reqs = Append(@, ReqContent(r.jsonFiles[r.i + 1].path,
                                                  r.token)),
                    !.fate = fate],
        marker |-> mk]
  ELSE Finalize(r, win, wrOk, ds, mk)

\* Next iteration of `for (const item of jsonFiles)`, or the end of the loop.
Advance(r, win, wrOk, ds, mk, fate) ==
  IF r.i < Len(r.jsonFiles)
  THEN [pass |-> [r EXCEPT !.pc = "content", !.i = @ + 1,
                    !.reqs = Append(@, ReqContent(r.jsonFiles[r.i + 1].path,
                                                  r.token)),
                    !.fate = fate],
        marker |-> mk]
  ELSE Finalize(r, win, wrOk, ds, mk)

\* Answers of the version call, of the tree listing call and of a content
\* call (content is the base64 text of the response).
VersionResponses(bodies) ==
  [kind : {"error", "timeout"}, body : {<<>>}] \cup
  [kind : {"text"}, body : bodies]

ListResponses(trees) ==
  [kind : {"error", "timeout", "badjson", "notree"}, tree : {<<>>}] \cup
  [kind : {"tree"}, tree : trees]

ContentResponses(payloads) ==
  [kind : {"error", "timeout"}, content : {""}, encoding : {Null}]
  \cup [kind : {"json"}, content : {""} \cup payloads,
        encoding : {Null, "base64"}]

\* A write that first empties the directory of its other files.
WriteFileMirror(fs, root, path, bytes) ==
  [fs EXCEPT ![root] =
     [f \in DOMAIN @ |-> IF f = path THEN bytes ELSE NoFile]]

\* fs.writeFileSync(outPath, buf): the file at the path holds the bytes.
WriteFile(fs, root, path, bytes) == [fs EXCEPT ![root][path] = bytes]

\* Buffer.from(content, encoding || 'base64')
BufferFrom(content, encoding) ==
  LET enc == IF Truthy(encoding) THEN encoding ELSE "base64"
  IN IF enc = "base64"
     THEN (IF content = "eA==" THEN "x" ELSE IF content = "eQ==" THEN "y"
           ELSE "")
     ELSE content

\* ---------------------------------------------------------------- actions
Init ==
  /\ isDev \in BOOLEAN
  /\ keytar \in BOOLEAN
  /\ installProbe \in (IF isDev THEN {"fail"} ELSE ProbeOutcomes)
  /\ mainWindow = FALSE
  /\ stored = Null
  /\ dirs = {}
  /\ marker = [r \in Roots |-> NoMarker]
  /\ files = [r \in Roots |-> [f \in IndicatorPaths |-> NoFile]]
  /\ pass = [p \in Passes |-> IdlePass]

\* An invocation takes the lowest free slot, while fewer than cap are in use.
FreeSlot(p, cap) ==
  /\ pass[p].pc = "idle"
  /\ \A q \in Passes : q < p => pass[q].pc # "idle"
  /\ Cardinality({q \in Passes : pass[q].pc # "idle"}) < cap

\* checkAndUpdateIndicators() is invoked: in production only, at load time
\* and by setInterval every CHECK_INTERVAL_MS. It issues fetchText.
CheckAndUpdateIndicators(p, cap, In) ==
  /\ ~isDev
  /\ FreeSlot(p, cap)
  /\ \E fate \in In.fates :
       pass' = [pass EXCEPT ![p] =
                  [IdlePass EXCEPT !.pc = "verFetch", !.kind = "auto",
                                   !.reqs = <<ReqVersion>>, !.fate = fate]]
  /\ UNCHANGED <<isDev, keytar, installProbe, mainWindow, stored, dirs,
                 marker, files>>

\* ipcMain.handle('download-indicators'): performDownloadIndicators(opts)
DownloadIndicators(p, cap, In) ==
  /\ FreeSlot(p, cap)
  /\ \E o \in In.opts, mkOk \in MkdirOutcomes, fate \in In.fates :
       LET n == Enter([IdlePass EXCEPT !.kind = "manual"], o, keytar,
                      mainWindow, isDev, installProbe, mkOk, dirs, fate)
       IN /\ pass' = [pass EXCEPT ![p] = n.pass]
          /\ dirs' = n.dirs
  /\ UNCHANGED <<isDev, keytar, installProbe, mainWindow, stored, marker,
                 files>>

\* A comparison that asks for a sync only when a version is installed.
NeedsSyncWhenInstalled(installedVer, remoteVer) ==
  installedVer # NullV /\ installedVer # remoteVer

\* A comparison that always asks for a sync.
NeedsSyncAlways(installedVer, remoteVer) == TRUE

\* if (installedVer === remoteVer) return; else download
NeedsSync(installedVer, remoteVer) == installedVer # remoteVer

\* checkAndUpdateIndicators after `await fetchText(REMOTE_VERSION_URL)`:
\* a failed fetch gives null; an empty version ends the check; then the
\* installed version is read and compared.
VersionResponse(p, In) ==
  /\ pass[p].pc = "verFetch"
  /\ \E resp \in VersionResponses(In.bodies), mkOk \in MkdirOutcomes,
        readOk \in BOOLEAN, fate \in In.fates :
       LET remoteVer == IF resp.kind = "text" THEN Trim(resp.body) ELSE NullV
           r0 == [pass[p] EXCEPT !.remoteVer = remoteVer, !.fate = "any"]
           g == getIndicatorsDir(isDev, installProbe, mkOk, dirs)
           installedVer == readInstalledIndicatorVersion(g.dir, marker, readOk)
           r1 == [r0 EXCEPT !.installedVer = installedVer]
       IN /\ Answers(pass[p].fate, resp.kind)
          /\ Settles(TransportEvent(resp.kind))
          /\ IF ~TruthyV(remoteVer)
             THEN /\ pass' = [pass EXCEPT ![p] = [r0 EXCEPT !.pc = "done"]]
                  /\ dirs' = dirs
             ELSE IF ~NeedsSync(installedVer, remoteVer)
             THEN /\ pass' = [pass EXCEPT ![p] = [r1 EXCEPT !.pc = "done"]]
                  /\ dirs' = g.dirs
             ELSE IF keytar
             THEN /\ pass' = [pass EXCEPT ![p] =
                                [r1 EXCEPT !.pc = "autoTok",
                                           !.credReads = @ + 1]]
                  /\ dirs' = g.dirs
             ELSE LET n == Enter(r1, AutoOpts(Null, remoteVer), keytar,
                                 mainWindow, isDev, installProbe, mkOk,
                                 g.dirs, fate)
                  IN /\ pass' = [pass EXCEPT ![p] = n.pass]
                     /\ dirs' = n.dirs
  /\ UNCHANGED <<isDev, keytar, installProbe, mainWindow, stored, marker,
                 files>>

\* checkAndUpdateIndicators after `await keytar.getPassword(...)` (a throw is
\* caught and leaves token null): calls performDownloadIndicators.
AutoTokResponse(p, In) ==
  /\ pass[p].pc = "autoTok"
  /\ \E threw \in BOOLEAN, mkOk \in MkdirOutcomes, fate \in In.fates :
       LET tok == IF threw THEN Null ELSE stored
           n == Enter(pass[p], AutoOpts(tok, pass[p].remoteVer), keytar,
                      mainWindow, isDev, installProbe, mkOk, dirs, fate)
       IN /\ pass' = [pass EXCEPT ![p] = n.pass]
          /\ dirs' = n.dirs
  /\ UNCHANGED <<isDev, keytar, installProbe, mainWindow, stored, marker,
                 files>>

\* performDownloadIndicators after `await keytar.getPassword(...)`.
TokResponse(p, In) ==
  /\ pass[p].pc = "tok"
  /\ \E threw \in BOOLEAN, mkOk \in MkdirOutcomes, fate \in In.fates :
       LET tok == IF threw THEN Null ELSE stored
           n == Prepare(pass[p], tok, isDev, installProbe, mkOk, dirs, fate)
       IN /\ pass' = [pass EXCEPT ![p] = n.pass]
          /\ dirs' = n.dirs
  /\ UNCHANGED <<isDev, keytar, installProbe, mainWindow, stored, marker,
                 files>>

\* performDownloadIndicators after `await fetchJson(api)`.
ListingResponse(p, In) ==
  /\ pass[p].pc = "listing"
  /\ \E resp \in ListResponses(In.trees), wrOk \in BOOLEAN,
        fate \in In.fates :
       LET r == pass[p]
       IN /\ Answers(r.fate, resp.kind)
          /\ Settles(TransportEvent(resp.kind))
          /\ IF resp.kind # "tree"
             THEN /\ pass' = [pass EXCEPT ![p] =
                                OnListingFailure([r EXCEPT !.fate = "any"],
                                                 mainWindow, resp.kind)]
                  /\ marker' = marker
             ELSE LET r1 == [r EXCEPT !.jsonFiles = FilterJson(resp.tree),
                                      !.listResp = "tree",
                                      !.tree = IF In.keep THEN resp.tree
                                               ELSE <<>>]
                      r2 == Send(r1, mainWindow, EvStart(Len(r1.jsonFiles)))
                      n == Advance(r2, mainWindow, wrOk, dirs, marker, fate)
                  IN /\ pass' = [pass EXCEPT ![p] = n.pass]
                     /\ marker' = n.marker
  /\ UNCHANGED <<isDev, keytar, installProbe, mainWindow, stored, dirs,
                 files>>

\* One iteration of the loop after `await fetchJson(contentUrl)`: on content
\* the file is written under indicatorsDir (fileOk: the file system lets
\* ensureDir and writeFileSync succeed), else the path goes to errors.
ContentResponse(p, In) ==
  /\ pass[p].pc = "content"
  /\ \E resp \in ContentResponses(In.payloads), fileOk, wrOk \in BOOLEAN,
        fate \in In.fates :
       LET r == pass[p]
           item == r.jsonFiles[r.i]
           root == r.indicatorsDir
           envFailed == resp.kind # "json" \/ resp.content = "" \/ ~fileOk
           r0 == [r EXCEPT !.failed = IF envFailed THEN Append(@, item.path)
                                      ELSE @]
       IN /\ Answers(r.fate, resp.kind)
          /\ Settles(TransportEvent(resp.kind))
          /\ IF resp.kind # "json"
             THEN \* catch (err): errors.push
                  LET r1 == [r0 EXCEPT !.errors =
                               Append(@, [path |-> item.path,
                                          error |-> ErrMessage])]
                      n == Advance(r1, mainWindow, wrOk, dirs, marker, fate)
                  IN /\ pass' = [pass EXCEPT ![p] = n.pass]
                     /\ marker' = n.marker
                     /\ UNCHANGED <<dirs, files>>
             ELSE IF ~Truthy(resp.content)
             THEN LET r1 == [r0 EXCEPT !.errors =
                               Append(@, [path |-> item.path,
                                          error |-> "no content"])]
                      n == Advance(r1, mainWindow, wrOk, dirs, marker, fate)
                  IN /\ pass' = [pass EXCEPT ![p] = n.pass]
                     /\ marker' = n.marker
                     /\ UNCHANGED <<dirs, files>>
             ELSE IF fileOk
             THEN \* ensureDir(outDir); writeFileSync; downloaded.push;
                  \* indicators-download-progress
                  LET ds == dirs \cup {root}
                      bytes == BufferFrom(resp.content, resp.encoding)
                      r1 == [r0 EXCEPT
                               !.downloaded = Append(@, item.path),
                               !.bytes = Append(@, bytes),
                               !.touched =
                                 @ \cup (IF ds # dirs THEN {"dir"} ELSE {})
                                   \cup (IF files[root][item.path] # bytes
                                         THEN {"file"} ELSE {})]
                      r2 == Send(r1, mainWindow,
                                 EvProgress(r.i, Len(r.jsonFiles), item.path))
                      n == Advance(r2, mainWindow, wrOk, ds, marker, fate)
                  IN /\ pass' = [pass EXCEPT ![p] = n.pass]
                     /\ marker' = n.marker
                     /\ dirs' = ds
                     /\ files' = WriteFile(files, root, item.path, bytes)
             ELSE \* writeFileSync throws: errors.push
                  LET r1 == [r0 EXCEPT !.errors =
                               Append(@, [path |-> item.path,
                                          error |-> ErrMessage])]
                      n == Advance(r1, mainWindow, wrOk, dirs, marker, fate)
                  IN /\ pass' = [pass EXCEPT ![p] = n.pass]
                     /\ marker' = n.marker
                     /\ UNCHANGED <<dirs, files>>
  /\ UNCHANGED <<isDev, keytar, installProbe, mainWindow, stored>>

\* The caller has its result; the slot is free for a later invocation.
Reap(p) ==
  /\ pass[p].pc = "done"
  /\ pass' = [pass EXCEPT ![p] = IdlePass]
  /\ UNCHANGED <<isDev, keytar, installProbe, mainWindow, stored, dirs,
                 marker, files>>

\* createWindow: mainWindow = new BrowserWindow(...)
CreateWindow ==
  /\ ~mainWindow
  /\ mainWindow' = TRUE
  /\ UNCHANGED <<isDev, keytar, installProbe, stored, dirs, marker, files,
                 pass>>

\* mainWindow.on('closed', () => { mainWindow = null })
WindowClosed ==
  /\ mainWindow
  /\ mainWindow' = FALSE
  /\ UNCHANGED <<isDev, keytar, installProbe, stored, dirs, marker, files,
                 pass>>

\* The file system changes under the application: the directory next to the
\* executable becomes writable, or stops being so.
ProbeChanges ==
  /\ ~isDev
  /\ installProbe' \in ProbeOutcomes \ {installProbe}
  /\ UNCHANGED <<isDev, keytar, mainWindow, stored, dirs, marker, files,
                 pass>>

\* An invocation of a gateway handler that returns in the step it starts.
Handled(kind) == [IdlePass EXCEPT !.pc = "done", !.kind = kind]

\* ipcMain.handle('store-indicator-token'): setPassword(String(token || ''))
StoreToken(p, cap) ==
  /\ FreeSlot(p, cap)
  /\ \E token \in StoreTokens, threw \in BOOLEAN :
       LET ok == keytar /\ ~threw
       IN /\ stored' = IF ok THEN token ELSE stored
          /\ pass' = [pass EXCEPT ![p] =
               [Handled("store-indicator-token") EXCEPT
                  !.token = token, !.fault = keytar /\ threw,
                  !.reply = IF ok THEN "true" ELSE "false"]]
  /\ UNCHANGED <<isDev, keytar, installProbe, mainWindow, dirs, marker,
                 files>>

\* ipcMain.handle('get-indicator-token'): getPassword, null when none.
GetToken(p, cap) ==
  /\ FreeSlot(p, cap)
  /\ \E threw \in BOOLEAN :
       pass' = [pass EXCEPT ![p] =
         [Handled("get-indicator-token") EXCEPT
            !.fault = keytar /\ threw,
            !.credReads = IF keytar THEN 1 ELSE 0,
            !.reply = IF keytar /\ ~threw THEN stored ELSE Null]]
  /\ UNCHANGED <<isDev, keytar, installProbe, mainWindow, stored, dirs,
                 marker, files>>

\* A delete that overwrites the password with an empty one.
DeleteTokenBlank(p, cap) ==
  /\ FreeSlot(p, cap)
  /\ \E threw \in BOOLEAN :
       LET ok == keytar /\ ~threw
       IN /\ stored' = IF ok THEN "" ELSE stored
          /\ pass' = [pass EXCEPT ![p] =
               [Handled("delete-indicator-token") EXCEPT
                  !.fault = keytar /\ threw,
                  !.reply = IF ok THEN "true" ELSE "false"]]
  /\ UNCHANGED <<isDev, keytar, installProbe, mainWindow, dirs, marker,
                 files>>

\* ipcMain.handle('delete-indicator-token'): deletePassword answers whether
\* there was a password to delete.
DeleteToken(p, cap) ==
  /\ FreeSlot(p, cap)
  /\ \E threw \in BOOLEAN :
       LET ok == keytar /\ ~threw
       IN /\ stored' = IF ok THEN Null ELSE stored
          /\ pass' = [pass EXCEPT ![p] =
               [Handled("delete-indicator-token") EXCEPT
                  !.fault = keytar /\ threw,
                  !.reply = IF ok /\ stored # Null THEN "true" ELSE "false"]]
  /\ UNCHANGED <<isDev, keytar, installProbe, mainWindow, dirs, marker,
                 files>>

\* ipcMain.handle('get-installed-indicators-version')
GetInstalledVersion(p, cap) ==
  /\ FreeSlot(p, cap)
  /\ \E mkOk \in MkdirOutcomes, readOk \in BOOLEAN :
       LET g == getIndicatorsDir(isDev, installProbe, mkOk, dirs)
       IN /\ dirs' = g.dirs
          /\ pass' = [pass EXCEPT ![p] =
               [Handled("get-installed-indicators-version") EXCEPT
                  !.indicatorsDir = g.dir,
                  !.installedVer =
                    readInstalledIndicatorVersion(g.dir, marker, readOk)]]
  /\ UNCHANGED <<isDev, keytar, installProbe, mainWindow, stored, marker,
                 files>>

\* ipcMain.handle('check-indicators-version'): one https.get of the url it
\* is given, no local effect.
CheckRemoteVersion(p, cap) ==
  /\ FreeSlot(p, cap)
  /\ pass' = [pass EXCEPT ![p] =
       [Handled("check-indicators-version") EXCEPT
          !.reqs = <<[kind |-> "url", path |-> <<>>, auth |-> Null]>>]]
  /\ UNCHANGED <<isDev, keytar, installProbe, mainWindow, stored, dirs,
                 marker, files>>

\* The separator path.join puts between segments: '/' on POSIX, '\' on
\* Windows.
Separators == {"/", "\\"}

\* path.join(base, entry.name) along the walk: the relative path of a file
\* with the separator of the platform.
Native(f, sep) == [k \in 1 .. Len(f) |-> IF f[k] = "/" THEN sep ELSE f[k]]

\* A listing that returns the paths as path.join built them.
KeepSeparators(path) == path

\* rel.replace(/\\/g, '/')
ToSlash(path) ==
  [k \in 1 .. Len(path) |-> IF path[k] = "\\" THEN "/" ELSE path[k]]

\* walk(dir): the files under dir whose name ends in '.json' whatever its
\* case, as forward-slash relative paths; readdirSync of a directory that
\* does not exist throws, and the handler then returns [].
walk(dir, ds, fs, sep) ==
  IF dir \notin ds THEN {}
  ELSE {ToSlash(Native(f, sep)) :
          f \in {g \in DOMAIN fs[dir] :
                   fs[dir][g] # NoFile /\ EndsWithLower(g, Ext)}}

\* ipcMain.handle('list-indicator-files'): ensureDir(getIndicatorsDir()),
\* then walk(getIndicatorsDir()).
ListInstalledFiles(p, cap) ==
  /\ FreeSlot(p, cap)
  /\ \E mkOk \in MkdirOutcomes, sep \in Separators :
       LET g1 == getIndicatorsDir(isDev, installProbe, mkOk, dirs)
           d1 == ensureDir(g1.dir, mkOk, g1.dirs)
           g2 == getIndicatorsDir(isDev, installProbe, mkOk, d1)
       IN /\ dirs' = g2.dirs
          /\ pass' = [pass EXCEPT ![p] =
               [Handled("list-indicator-files") EXCEPT
                  !.indicatorsDir = g2.dir,
                  !.listed = walk(g2.dir, g2.dirs, files, sep)]]
  /\ UNCHANGED <<isDev, keytar, installProbe, mainWindow, stored, marker,
                 files>>

\* Arguments a renderer can pass as relPath: paths of indicator files, paths
\* with '..' segments, and a value that is not a string.
NotAString == <<"#not-a-string">>
RelPaths ==
  {PathA, PathB, <<"..", "/", "secret">>,
   <<"indicators", "/", "..", "/", "..", "/", "secret">>, NotAString}

\* Content of the file ../secret beside the store.
OutsideBytes == "s"

\* path.join(root, rel) normalises '..' segments: the result leaves the root
\* when a '..' is met with no segment of rel left to cancel (depth = 0).
RECURSIVE Climbs(_, _)
Climbs(rel, depth) ==
  IF rel = <<>> THEN FALSE
  ELSE IF Head(rel) = ".." THEN depth = 0 \/ Climbs(Tail(rel), depth - 1)
  ELSE IF Head(rel) \in {"/", ".json", ".JSON"} THEN Climbs(Tail(rel), depth)
  ELSE Climbs(Tail(rel), depth + 1)

\* ipcMain.handle('read-indicator-file'): path.join(getIndicatorsDir(),
\* relPath) throws on a relPath that is no string (caught: null); otherwise
\* the joined path is tested and read wherever it points.
ReadInstalledFile(p, cap) ==
  /\ FreeSlot(p, cap)
  /\ \E rel \in RelPaths, mkOk \in MkdirOutcomes :
       LET g == getIndicatorsDir(isDev, installProbe, mkOk, dirs)
           r0 == [Handled("read-indicator-file") EXCEPT
                    !.arg = rel, !.indicatorsDir = g.dir]
       IN /\ dirs' = g.dirs
          /\ pass' = [pass EXCEPT ![p] =
               IF rel = NotAString THEN r0
               ELSE IF Climbs(rel, 0)
               THEN [r0 EXCEPT !.readFrom = "outside",
                               !.reply = OutsideBytes]
               ELSE IF rel \in IndicatorPaths /\ files[g.dir][rel] # NoFile
               THEN [r0 EXCEPT !.readFrom = "store",
                               !.reply = files[g.dir][rel]]
               ELSE [r0 EXCEPT !.readFrom = "store"]]
  /\ UNCHANGED <<isDev, keytar, installProbe, mainWindow, stored, marker,
                 files>>

\* ------------------------------------------------------- specifications
\* A continuation of invocation p runs.
PassStep(p, In) ==
  \/ VersionResponse(p, In)
  \/ AutoTokResponse(p, In)
  \/ TokResponse(p, In)
  \/ ListingResponse(p, In)
  \/ ContentResponse(p, In)

\* The inputs the environment can supply: caller options, version bodies,
\* remote trees, content payloads, and whether the fate of a request is
\* decided when it is issued ("any": only when it is answered); keep is
\* whether an invocation's record keeps the tree it received.
Rich ==
  [opts |-> ManualOpts, bodies |-> RemoteBodies, trees |-> Trees,
   payloads |-> {"eA==", "eQ=="}, fates |-> {"any"}, keep |-> FALSE]

\* Small inputs: a caller that names the repository or not and supplies no
\* version, two version bodies, trees of at most one entry (a candidate
\* or not), one payload.
LeanTrees ==
  {t \in Trees : Len(t) <= 1 /\ \A k \in 1 .. Len(t) :
                   t[k].path \in {PathA, <<"indicators", "/", "readme", ".md">>}}

Lean ==
  [opts |-> [owner : {"", AUTO_OWNER}, repo : {AUTO_REPO}, token : {Null},
             version : {NullV}],
   bodies |-> {<<" ">>, <<"1">>}, trees |-> LeanTrees,
   payloads |-> {"eA=="}, fates |-> {"any"}, keep |-> FALSE]

Invocations(cap, In) ==
  \/ \E p \in Passes : CheckAndUpdateIndicators(p, cap, In)
  \/ \E p \in Passes : DownloadIndicators(p, cap, In)
  \/ \E p \in Passes : PassStep(p, In)
  \/ \E p \in Passes : Reap(p)

Window ==
  \/ CreateWindow
  \/ WindowClosed

Handlers(cap) ==
  \/ \E p \in Passes : StoreToken(p, cap)
  \/ \E p \in Passes : GetToken(p, cap)
  \/ \E p \in Passes : DeleteToken(p, cap)
  \/ \E p \in Passes : GetInstalledVersion(p, cap)
  \/ \E p \in Passes : CheckRemoteVersion(p, cap)
  \/ \E p \in Passes : ListInstalledFiles(p, cap)
  \/ \E p \in Passes : ReadInstalledFile(p, cap)

\* Every interleaving of up to MaxPasses invocations and of the window's
\* changes, over the small inputs.
Next == Invocations(MaxPasses, Lean) \/ Window

Spec == Init /\ [][Next]_vars

\* Invocations that do not overlap each other nor the other handlers (each
\* starts when no slot is in use), over the full inputs; the window changes
\* at any time.
SeqNext == Invocations(1, Rich) \/ Window \/ Handlers(1)

SeqSpec == Init /\ [][SeqNext]_vars

\* Invocations one at a time whose requests have their fate (the response
\* ends, the request errors, it times out) when they are issued. Every network
\* call and every credential read is eventually answered: a continuation that
\* stays enabled runs.
LiveTrees ==
  {t \in Trees : \A k \in 1 .. Len(t) : t[k].path \in {PathA, PathB}}

LiveIn ==
  [Lean EXCEPT !.trees = LiveTrees, !.fates = {"end", "error", "timeout"}]

LiveNext == Invocations(1, LiveIn) \/ Window

LiveSpec ==
  Init /\ [][LiveNext]_vars /\ \A p \in Passes : WF_vars(PassStep(p, LiveIn))

\* Invocations that start one after the other and stay in their slots when
\* they have returned, so that a later one can be compared with an earlier
\* one; their records keep the tree received. No window is ever created, and
\* the writability of the directory next to the executable changes at any
\* time.
KeptIn ==
  [opts |-> [owner : {AUTO_OWNER}, repo : {AUTO_REPO}, token : {Null},
             version : ManualVersions],
   bodies |-> {<<"1">>}, trees |-> LiveTrees,
   payloads |-> {"eA==", "eQ=="}, fates |-> {"any"}, keep |-> TRUE]

OneAtATime ==
  \A p \in Passes :
    (pass[p].pc = "idle" /\ pass'[p].pc # "idle")
    => \A q \in Passes \ {p} : pass[q].pc \in {"idle", "done"}

KeptNext ==
  \/ (\E p \in Passes : CheckAndUpdateIndicators(p, MaxPasses, KeptIn))
     /\ OneAtATime
  \/ (\E p \in Passes : DownloadIndicators(p, MaxPasses, KeptIn))
     /\ OneAtATime
  \/ \E p \in Passes : PassStep(p, KeptIn)
  \/ ProbeChanges

KeptSpec == Init /\ [][KeptNext]_vars

\* The module as it is loaded: its two `if (!isDev)` initialisation blocks
\* each call checkAndUpdateIndicators() and each register a timer with
\* setInterval(..., CHECK_INTERVAL_MS).
InitBlocks == {1, 2}

\* checkAndUpdateIndicators() called by the module, up to its first await.
StartedCheck(t) ==
  [IdlePass EXCEPT !.pc = "verFetch", !.kind = "auto",
                   !.reqs = <<ReqVersion>>, !.trigger = t]

\* The state once preload.cjs has been evaluated: in production each block
\* has started a check; in development none has.
TriggerInit ==
  /\ isDev \in BOOLEAN
  /\ keytar \in BOOLEAN
  /\ installProbe \in (IF isDev THEN {"fail"} ELSE ProbeOutcomes)
  /\ mainWindow = FALSE
  /\ stored = Null
  /\ dirs = {}
  /\ marker = [r \in Roots |-> NoMarker]
  /\ files = [r \in Roots |-> [f \in IndicatorPaths |-> NoFile]]
  /\ pass = [p \in Passes |->
               IF ~isDev /\ p \in InitBlocks THEN StartedCheck("load")
               ELSE IdlePass]

\* CHECK_INTERVAL_MS has elapsed: the callback of every registered timer
\* runs and calls checkAndUpdateIndicators(). The interval is long enough
\* for the earlier checks to have returned.
IntervalElapses ==
  /\ ~isDev
  /\ \A p \in Passes : pass[p].pc = "idle"
  /\ pass' = [p \in Passes |->
                IF p \in InitBlocks THEN StartedCheck("timer") ELSE pass[p]]
  /\ UNCHANGED <<isDev, keytar, installProbe, mainWindow, stored, dirs,
                 marker, files>>

\* The checks the module starts by itself, over the small inputs.
TriggerNext ==
  \/ IntervalElapses
  \/ \E p \in Passes : PassStep(p, Lean)
  \/ \E p \in Passes : Reap(p)

TriggerSpec == TriggerInit /\ [][TriggerNext]_vars

\* One invocation at a time over every tree, the record keeping the tree
\* received.
FilterIn == [Lean EXCEPT !.trees = Trees, !.keep = TRUE]

FilterNext == Invocations(1, FilterIn)

FilterSpec == Init /\ [][FilterNext]_vars

\* ------------------------------------------------------------- properties
\* Ways the tree listing call can fail.
ListingFailures == {"error", "timeout", "badjson", "notree"}

IsContentReq(q) == q.kind = "content"
IsDownloadEvent(e) == e.type # "indicators-updated"
IsComplete(e) == e.type = "indicators-download-complete"
DownloadEvents(r) == SelectSeq(r.events, IsDownloadEvent)

\* Invocation p makes its first step / leaves the loop with a result.
Starts(p) == pass[p].pc = "idle" /\ pass'[p].pc # "idle"
Finishes(p) ==
  /\ pass[p].pc \in {"listing", "content"}
  /\ pass'[p].pc = "done"
  /\ pass'[p].listResp = "tree"

\* C1: downloadIndicators called with a missing or empty owner or repo
\* returns a failure result at once: no request is issued, no message is sent
\* to the renderer, the credential store is not read, and no directory, file
\* or version marker is created or changed.
C1_MissingConfigFailsFast ==
  [][\A p \in Passes :
       (/\ Starts(p)
        /\ pass'[p].kind = "manual"
        /\ (pass'[p].opts.owner = "" \/ pass'[p].opts.repo = ""))
       => /\ pass'[p].pc = "done"
          /\ ~pass'[p].result.success
          /\ pass'[p].result.error = "missing owner or repo"
          /\ pass'[p].reqs = <<>>
          /\ pass'[p].events = <<>>
          /\ ~pass'[p].dropped
          /\ pass'[p].credReads = 0
          /\ UNCHANGED <<dirs, marker, files, stored>>]_vars

C1_Witness ==
  \E p \in Passes :
    /\ pass[p].pc = "done"
    /\ pass[p].kind = "manual"
    /\ pass[p].opts.owner = AUTO_OWNER
    /\ pass[p].opts.repo = ""
    /\ pass[p].result.error = "missing owner or repo"

\* C2 as stated: a pass whose tree listing failed returns a failure that
\* carries an error, has made no content request and has created or changed
\* nothing in the store, its directory included.
C2_Original ==
  \A p \in Passes :
    (pass[p].pc = "done" /\ pass[p].listResp \in ListingFailures)
    => /\ ~pass[p].result.success
       /\ pass[p].result.error # Null
       /\ SelectSeq(pass[p].reqs, IsContentReq) = <<>>
       /\ pass[p].touched = {}

\* C2 amended: a pass whose tree listing fails returns a failure that carries
\* an error, makes no content request and creates or changes no indicator file
\* and no version marker; the step that ends it changes nothing in the store,
\* and all the pass did there was to create the store's directory, before the
\* listing was requested.
C2_ListingFailureKeepsFiles ==
  [][\A p \in Passes :
       (/\ pass[p].pc = "listing"
        /\ pass'[p].pc = "done"
        /\ pass'[p].listResp \in ListingFailures)
       => /\ ~pass'[p].result.success
          /\ pass'[p].result.error # Null
          /\ SelectSeq(pass'[p].reqs, IsContentReq) = <<>>
          /\ pass'[p].touched \subseteq {"dir"}
          /\ UNCHANGED <<dirs, marker, files>>]_vars

C2_Witness ==
  \E p \in Passes :
    /\ pass[p].pc = "done"
    /\ pass[p].listResp = "notree"
    /\ pass[p].touched = {"dir"}
    /\ pass[p].indicatorsDir \in dirs

\* The messages of pass r about its download are a start carrying the number
\* of candidate files, then progress messages, then (once it has returned)
\* one complete message.
Ordered(r) ==
  LET ev == DownloadEvents(r)
      n == Len(ev)
  IN /\ n >= 1
     /\ ev[1] = EvStart(Len(r.jsonFiles))
     /\ IF r.pc = "done"
        THEN /\ n >= 2
             /\ ev[n] = EvComplete(r.result)
             /\ \A k \in 2 .. n - 1 :
                  ev[k].type = "indicators-download-progress"
        ELSE \A k \in 2 .. n : ev[k].type = "indicators-download-progress"

\* C3 as stated: in every pass whose listing succeeded the messages are one
\* download-start with the total, then download-progress messages, then one
\* download-complete.
C3_Original ==
  \A p \in Passes : pass[p].listResp = "tree" => Ordered(pass[p])

\* C3 amended: in every pass whose listing succeeded and that found the
\* window present each time it had a message to send, the messages are one
\* download-start with the total, then download-progress messages, then one
\* download-complete.
C3_EventsOrdered ==
  \A p \in Passes :
    (pass[p].listResp = "tree" /\ ~pass[p].dropped) => Ordered(pass[p])

C3_Witness ==
  \E p \in Passes :
    /\ pass[p].pc = "done"
    /\ pass[p].listResp = "tree"
    /\ ~pass[p].dropped
    /\ Len(DownloadEvents(pass[p])) = 4

\* The result of a pass that leaves the loop counts its M candidates: N that
\* the environment failed, M - N downloaded, the errors naming the N paths.
Accounted(r) ==
  LET M == Len(r.jsonFiles)
      N == Len(r.failed)
  IN /\ r.result.success
     /\ r.result.downloaded = M - N
     /\ Len(r.result.errors) = N
     /\ [k \in 1 .. N |-> r.result.errors[k].path] = r.failed

\* C4 as stated: a pass whose listing returned M candidates of which N failed
\* returns success with M - N downloaded and the N failed paths, and if a
\* version was supplied the marker holds it when the pass returns.
C4_Original ==
  [][\A p \in Passes :
       Finishes(p)
       => /\ Accounted(pass'[p])
          /\ TruthyV(pass'[p].opts.version)
             => marker'[pass'[p].indicatorsDir] = pass'[p].opts.version]_vars

\* C4 amended: a pass whose listing returned M candidates of which N failed
\* returns success with M - N downloaded and the N failed paths, and if a
\* version was supplied and the write of the marker file succeeded the marker
\* holds that version when the pass returns, whatever N is.
C4_PartialFailure ==
  [][\A p \in Passes :
       Finishes(p)
       => /\ Accounted(pass'[p])
          /\ (TruthyV(pass'[p].opts.version)
              /\ pass'[p].markerWrite = "ok")
             => marker'[pass'[p].indicatorsDir] = pass'[p].opts.version]_vars

C4_Witness ==
  \E p \in Passes :
    /\ pass[p].pc = "done"
    /\ Len(pass[p].jsonFiles) = 2
    /\ Len(pass[p].failed) = 2
    /\ pass[p].result.success
    /\ pass[p].markerWrite = "ok"
    /\ marker[pass[p].indicatorsDir] = pass[p].opts.version

\* C5: the version marker changes only in the step in which a pass leaves its
\* download loop with a supplied version, and then to that version, in the
\* directory of that pass.
C5_MarkerFrame ==
  [][\A d \in Roots :
       marker'[d] # marker[d]
       => \E p \in Passes :
            /\ Finishes(p)
            /\ TruthyV(pass'[p].opts.version)
            /\ pass'[p].indicatorsDir = d
            /\ marker'[d] = pass'[p].opts.version]_vars

C5_Witness ==
  \E p \in Passes :
    /\ pass[p].pc = "done"
    /\ pass[p].kind = "manual"
    /\ pass[p].markerWrite = "ok"
    /\ pass[p].errors # <<>>
    /\ marker[pass[p].indicatorsDir] = pass[p].opts.version
    /\ stored # Null

\* The automatic check p has its answer from the version URL.
Compares(p) == pass[p].pc = "verFetch" /\ pass'[p].pc # "verFetch"

\* The directory getIndicatorsDir resolves to.
ResolvedDir == getIndicatorsDir(isDev, installProbe, TRUE, dirs).dir

\* C6 as stated: an automatic check that fetched the remote version starts a
\* pass if and only if the local version differs from it; a missing marker
\* forces a pass whatever the remote version is.
C6_Original ==
  [][\A p \in Passes :
       (Compares(p) /\ pass'[p].remoteVer # NullV)
       => ((pass'[p].pc # "done")
           <=> (readInstalledIndicatorVersion(ResolvedDir, marker, TRUE)
                # pass'[p].remoteVer))]_vars

\* C6 amended: an automatic check starts a pass if and only if the fetched
\* remote version is not empty and differs from the local version as read
\* (null when the marker is missing, unreadable or blank, else its trimmed
\* text).
C6_StartsIffDiffers ==
  [][\A p \in Passes :
       Compares(p)
       => /\ (pass'[p].pc # "done")
             <=> (/\ TruthyV(pass'[p].remoteVer)
                  /\ pass'[p].installedVer # pass'[p].remoteVer)
          /\ TruthyV(pass'[p].remoteVer)
             => \/ pass'[p].installedVer = NullV
                \/ /\ marker[ResolvedDir] # NoMarker
                   /\ pass'[p].installedVer = Trim(marker[ResolvedDir])]_vars

C6_Witness ==
  \E p \in Passes :
    /\ pass[p].kind = "auto"
    /\ pass[p].pc = "listing"
    /\ pass[p].installedVer = <<"1">>
    /\ pass[p].remoteVer = <<"2">>

\* C7: an automatic check that reads a local version equal to the remote one
\* ends there: the version request is the only one, no message is sent to the
\* renderer, no file and no marker is written.
C7_SkipWhenEqual ==
  [][\A p \in Passes :
       (/\ Compares(p)
        /\ TruthyV(pass'[p].remoteVer)
        /\ pass'[p].installedVer = pass'[p].remoteVer)
       => /\ pass'[p].pc = "done"
          /\ pass'[p].reqs = <<ReqVersion>>
          /\ pass'[p].events = <<>>
          /\ ~pass'[p].dropped
          /\ pass'[p].result = NoResult
          /\ UNCHANGED <<marker, files>>]_vars

C7_Witness ==
  \E p \in Passes :
    /\ pass[p].kind = "auto"
    /\ pass[p].pc = "done"
    /\ pass[p].installedVer = <<"2">>
    /\ pass[p].remoteVer = <<"2">>
    /\ mainWindow

\* C8 as stated: at most one pass is between the start of its download loop
\* and its finalization at any time.
C8_OnePassInLoop ==
  Cardinality({p \in Passes : pass[p].pc = "content"}) <= 1

\* C9: every invocation in flight eventually returns, given that every
\* request ends, errors or times out; and whatever the earlier invocations
\* left behind, a new one can start once none is in flight.
C9_EveryPassReturns ==
  /\ \A p \in Passes :
       (pass[p].pc \notin {"idle", "done"}) ~> (pass[p].pc = "done")
  /\ []((\A q \in Passes : pass[q].pc = "idle")
         => ENABLED (\E p \in Passes : DownloadIndicators(p, 1, LiveIn)))

C9_Witness ==
  \E p \in Passes :
    /\ pass[p].pc = "done"
    /\ Len(pass[p].jsonFiles) = 2
    /\ pass[p].failed = <<PathB>>
    /\ marker[pass[p].indicatorsDir] # NoMarker

\* C10 as stated, for the invocations that found the window present each
\* time they had a message to send: an attempt that has returned a result has
\* sent that result, once, as indicators-download-complete.
C10_ResultBroadcast ==
  \A p \in Passes :
    (pass[p].pc = "done" /\ pass[p].result # NoResult /\ ~pass[p].dropped)
    => SelectSeq(pass[p].events, IsComplete) = <<EvComplete(pass[p].result)>>

\* C11 as stated: every resolution of the store directory in one run returns
\* the same directory, so all the invocations of the run work under one root.
C11_OneRoot ==
  \A p, q \in Passes :
    (pass[p].indicatorsDir # Null /\ pass[q].indicatorsDir # Null)
    => pass[p].indicatorsDir = pass[q].indicatorsDir

\* Pass b, as far as it has come, is a run of the same sync as the finished
\* pass a: same directory, same version, same tree, and the same bytes for
\* every file both have fetched.
SameSync(a, b) ==
  /\ a.pc = "done"
  /\ a.listResp = "tree"
  /\ b.indicatorsDir = a.indicatorsDir
  /\ b.opts.version = a.opts.version
  /\ b.listResp = "tree" => b.tree = a.tree
  /\ \A k \in 1 .. Len(b.downloaded) :
       \A j \in 1 .. Len(a.downloaded) :
         a.downloaded[j] = b.downloaded[k] => a.bytes[j] = b.bytes[k]

\* The later of two passes that follow each other.
Later == {p \in Passes : p > 1}

Resolved(r) == r.kind \in {"manual", "auto"} /\ r.indicatorsDir # Null

\* C13: the token of a pass is the caller's when the caller supplied one, and
\* then the pass does not read the credential store; otherwise it is what
\* the credential store answered, or none. The listing request and every
\* content request carry the token as authorization when there is one, and no
\* authorization when there is none.
C13_TokenResolution ==
  [][\A p \in Passes :
       LET r == pass'[p]
       IN Resolved(r)
          => /\ Truthy(r.opts.token)
                => /\ r.token = r.opts.token
                   /\ r.credReads = IF r.kind = "auto" THEN 1 ELSE 0
             /\ ~Truthy(r.opts.token)
                => /\ r.token \in {Null} \cup StoreTokens
                   /\ ~keytar => r.token = Null /\ r.credReads = 0
             /\ pass[p].pc = "tok" => r.token \in {Null, stored}
             /\ \A k \in 1 .. Len(r.reqs) :
                  r.reqs[k].auth =
                    IF r.reqs[k].kind \in {"tree", "content"}
                       /\ r.token # Null /\ r.token # ""
                    THEN r.token ELSE Null]_vars

C13_Witness ==
  \E p \in Passes :
    /\ pass[p].pc = "done"
    /\ pass[p].kind = "manual"
    /\ pass[p].opts.token = Null
    /\ pass[p].token = "tS"
    /\ Len(pass[p].reqs) = 3
    /\ \A k \in 1 .. 3 : pass[p].reqs[k].auth = "tS"

\* C14 as stated: read-indicator-file reads only inside the store, and a
\* relPath that is no string or that leaves the root is answered null without
\* a read.
C14_ReadStaysInside ==
  \A p \in Passes :
    (pass[p].kind = "read-indicator-file" /\ pass[p].pc = "done")
    => /\ pass[p].readFrom # "outside"
       /\ (pass[p].arg = NotAString \/ Climbs(pass[p].arg, 0))
          => (pass[p].reply = Null /\ pass[p].readFrom = "none")

\* Invocation p is a call of handler `kind` that has just returned.
Calls(p, kind) == Starts(p) /\ pass'[p].kind = kind /\ pass'[p].pc = "done"

C16_CredentialFailSoft ==
  [][\A p \in Passes :
       /\ (~keytar \/ pass'[p].fault)
          => /\ Calls(p, "store-indicator-token")
                => (pass'[p].reply = "false" /\ stored' = stored)
             /\ Calls(p, "get-indicator-token")
                => (pass'[p].reply = Null /\ stored' = stored)
             /\ Calls(p, "delete-indicator-token")
                => (pass'[p].reply = "false" /\ stored' = stored)
       /\ (/\ ~keytar
           /\ Starts(p)
           /\ pass'[p].kind = "manual"
           /\ pass'[p].opts.owner # ""
           /\ pass'[p].opts.repo # "")
          => /\ pass'[p].pc = "listing"
             /\ pass'[p].token = pass'[p].opts.token
             /\ pass'[p].reqs = <<ReqTree(pass'[p].opts.token)>>
       /\ pass[p].pc = "tok" /\ pass'[p].pc # "tok"
          => /\ pass'[p].pc = "listing"
             /\ pass'[p].token \in {Null, stored}
             /\ pass'[p].reqs[Len(pass'[p].reqs)] = ReqTree(pass'[p].token)
       /\ pass[p].pc = "autoTok" /\ pass'[p].pc # "autoTok"
          => pass'[p].pc \in {"tok", "listing"}]_vars

C16_Witness ==
  \E p \in Passes :
    /\ ~keytar
    /\ pass[p].kind = "manual"
    /\ pass[p].opts.token = Null
    /\ pass[p].pc = "done"
    /\ pass[p].result.success
    /\ Len(pass[p].downloaded) = 1
    /\ \A k \in 1 .. Len(pass[p].reqs) : pass[p].reqs[k].auth = Null

\* A tree entry that is a blob under indicators/ whose name ends in .json,
\* in whatever case.
IsCandidate(e) ==
  /\ e.type = "blob"
  /\ Len(e.path) > 2
  /\ e.path[1] = "indicators"
  /\ e.path[2] = "/"
  /\ e.path[Len(e.path)] \in {".json", ".JSON"}

\* C17: the candidates of a pass are the entries of the tree it received that
\* are blobs under indicators/ ending in .json, in the order of the tree; the
\* content requests of the pass are for candidates, and a file changes only
\* at the path of the candidate a pass is fetching.
C17_CandidatesFiltered ==
  [][/\ \A p \in Passes :
          pass'[p].listResp = "tree"
          => /\ pass'[p].jsonFiles = SelectSeq(pass'[p].tree, IsCandidate)
             /\ \A k \in 1 .. Len(pass'[p].reqs) :
                  pass'[p].reqs[k].kind = "content"
                  => \E j \in 1 .. Len(pass'[p].tree) :
                       /\ IsCandidate(pass'[p].tree[j])
                       /\ pass'[p].tree[j].path = pass'[p].reqs[k].path
     /\ \A d \in Roots, f \in IndicatorPaths :
          files'[d][f] # files[d][f]
          => \E p \in Passes :
               /\ pass[p].pc = "content"
               /\ pass[p].indicatorsDir = d
               /\ \E j \in 1 .. Len(pass[p].tree) :
                    /\ IsCandidate(pass[p].tree[j])
                    /\ pass[p].tree[j].path = f]_vars

C17_Witness ==
  \E p \in Passes :
    /\ pass[p].pc = "done"
    /\ Len(pass[p].tree) = 2
    /\ pass[p].tree[1].path = PathB
    /\ ~IsCandidate(pass[p].tree[2])
    /\ pass[p].jsonFiles = <<pass[p].tree[1]>>
    /\ pass[p].downloaded = <<PathB>>

\* The paths of the candidates of pass r.
CandidatePaths(r) == {r.jsonFiles[k].path : k \in 1 .. Len(r.jsonFiles)}

\* C18: no step removes an installed indicator file, and the bytes of a file
\* change only when a pass that has it as a candidate is fetching it: a file
\* that a later tree no longer lists stays as it is.
C18_NeverDeleted ==
  [][\A d \in Roots, f \in IndicatorPaths :
       /\ files[d][f] # NoFile => files'[d][f] # NoFile
       /\ files'[d][f] # files[d][f]
          => \E p \in Passes :
               /\ pass[p].pc = "content"
               /\ pass[p].indicatorsDir = d
               /\ pass[p].jsonFiles[pass[p].i].path = f]_vars

C18_Witness ==
  \E p \in Passes :
    /\ pass[p].pc = "done"
    /\ pass[p].listResp = "tree"
    /\ pass[p].downloaded = <<PathB>>
    /\ CandidatePaths(pass[p]) = {PathB}
    /\ files[pass[p].indicatorsDir][PathA] = "y"
    /\ files[pass[p].indicatorsDir][PathB] = "x"

\* C19: the content requests of a pass are one per candidate, in the order of
\* the listing, up to the candidate being fetched; every earlier candidate
\* has been written or recorded as an error, so that one request at most is
\* outstanding and no candidate is asked for twice.
C19_SequentialRequests ==
  \A p \in Passes :
    pass[p].listResp = "tree"
    => LET r == pass[p]
       IN /\ SelectSeq(r.reqs, IsContentReq)
               = [k \in 1 .. r.i |->
                    ReqContent(r.jsonFiles[k].path, r.token)]
          /\ Len(r.downloaded) + Len(r.errors)
               = IF r.pc = "content" THEN r.i - 1 ELSE r.i
          /\ r.pc = "done" => r.i = Len(r.jsonFiles)
          /\ r.pc \in {"content", "done"}

C19_Witness ==
  \E p \in Passes :
    /\ pass[p].pc = "content"
    /\ pass[p].i = 2
    /\ Len(pass[p].errors) = 1
    /\ pass[p].errors[1].path = PathA
    /\ Len(SelectSeq(pass[p].reqs, IsContentReq)) = 2

IsProgress(e) == e.type = "indicators-download-progress"

\* C20: in a pass that found the window present each time it had a message
\* to send, the progress messages are those of the files written, one each
\* and in that order; their current values are the positions of these files
\* in the candidate list, hence increasing and between 1 and total, and their
\* total is that of the start message.
C20_ProgressCounts ==
  \A p \in Passes :
    (pass[p].listResp = "tree" /\ ~pass[p].dropped)
    => LET r == pass[p]
           pe == SelectSeq(r.events, IsProgress)
       IN /\ [k \in 1 .. Len(pe) |-> pe[k].path] = r.downloaded
          /\ r.pc = "done" => r.result.downloaded = Len(pe)
          /\ \A k \in 1 .. Len(pe) :
               /\ 1 <= pe[k].current
               /\ pe[k].current <= pe[k].total
               /\ pe[k].total = r.events[1].total
               /\ r.events[1].type = "indicators-download-start"
               /\ r.jsonFiles[pe[k].current].path = pe[k].path
               /\ k > 1 => pe[k - 1].current < pe[k].current

C20_Witness ==
  \E p \in Passes :
    /\ pass[p].pc = "done"
    /\ ~pass[p].dropped
    /\ Len(pass[p].jsonFiles) = 2
    /\ pass[p].downloaded = <<PathB>>
    /\ SelectSeq(pass[p].events, IsProgress) = <<EvProgress(2, 2, PathB)>>

\* The automatic pass p returns from a failed listing.
FailsListing(p) ==
  /\ pass[p].pc = "listing"
  /\ pass'[p].pc = "done"
  /\ pass'[p].listResp \in ListingFailures

\* The automatic check p, which has its answer from the version URL, follows
\* a finished automatic pass and sees the remote version that pass saw.
FollowsAuto(p) ==
  /\ p \in Later
  /\ Compares(p)
  /\ pass[p - 1].kind = "auto"
  /\ pass[p - 1].pc = "done"
  /\ pass[p - 1].listResp # Null
  /\ pass'[p].remoteVer = pass[p - 1].remoteVer

\* C21 as stated: an automatic pass whose listing succeeded leaves the marker
\* equal to the remote version, whatever files failed, and the next check
\* that sees this remote version starts no pass; an automatic pass whose
\* listing failed leaves the marker as it was, and the next check starts a
\* pass again.
C21_Original ==
  [][\A p \in Passes :
       /\ (Finishes(p) /\ pass'[p].kind = "auto")
          => marker'[pass'[p].indicatorsDir] = pass'[p].remoteVer
       /\ (FailsListing(p) /\ pass'[p].kind = "auto") => marker' = marker
       /\ FollowsAuto(p)
          => IF pass[p - 1].listResp = "tree"
             THEN pass'[p].pc = "done" /\ pass'[p].reqs = <<ReqVersion>>
             ELSE pass'[p].pc # "done"]_vars

\* C21 amended: an automatic pass whose listing succeeded leaves the marker
\* equal to the remote version, whatever files failed, when the file system
\* accepts the write of the marker, and leaves the marker as it was when the
\* write fails; the next check that resolves the directory of that pass,
\* reads its marker and sees this remote version starts no pass and makes no
\* other request. An automatic pass whose listing failed leaves the marker
\* as it was, and the next check that reads the local version the failed
\* pass's check read, and sees this remote version, starts a pass again.
C21_Convergence ==
  [][\A p \in Passes :
       /\ (Finishes(p) /\ pass'[p].kind = "auto")
          => IF pass'[p].markerWrite = "ok"
             THEN marker'[pass'[p].indicatorsDir] = pass'[p].remoteVer
             ELSE marker' = marker
       /\ (FailsListing(p) /\ pass'[p].kind = "auto") => marker' = marker
       /\ FollowsAuto(p)
          => IF pass[p - 1].listResp = "tree"
             THEN (/\ pass[p - 1].markerWrite = "ok"
                   /\ ResolvedDir = pass[p - 1].indicatorsDir
                   /\ pass'[p].installedVer
                        = readInstalledIndicatorVersion(ResolvedDir, marker,
                                                        TRUE))
                  => /\ pass'[p].pc = "done"
                     /\ pass'[p].reqs = <<ReqVersion>>
                     /\ UNCHANGED <<marker, files>>
             ELSE pass'[p].installedVer = pass[p - 1].installedVer
                  => pass'[p].pc # "done"]_vars

C21_Witness ==
  \E p \in Later :
    /\ pass[p - 1].kind = "auto"
    /\ pass[p - 1].pc = "done"
    /\ pass[p - 1].listResp = "tree"
    /\ Len(pass[p - 1].errors) = 2
    /\ pass[p - 1].downloaded = <<>>
    /\ pass[p - 1].markerWrite = "ok"
    /\ pass[p].kind = "auto"
    /\ pass[p].pc = "done"
    /\ pass[p].reqs = <<ReqVersion>>
    /\ pass[p].installedVer = pass[p - 1].remoteVer
    /\ pass[p].remoteVer = pass[p - 1].remoteVer

IsUpdated(e) == e.type = "indicators-updated"
Updates(r) == SelectSeq(r.events, IsUpdated)

\* The automatic check r has called performDownloadIndicators and has its
\* result.
PassReturned(r) == r.kind = "auto" /\ r.pc = "done" /\ r.result # NoResult

\* C22 as stated: an automatic check whose pass has returned has sent
\* indicators-updated once, as its last message, with the remote version and
\* the result of the pass, also when the listing failed; a check that has not
\* called the pass, or whose pass has not returned, has sent none.
C22_Original ==
  \A p \in Passes :
    pass[p].kind = "auto"
    => IF PassReturned(pass[p])
       THEN /\ Updates(pass[p])
                 = <<EvUpdated(pass[p].result, pass[p].remoteVer)>>
            /\ pass[p].events[Len(pass[p].events)]
                 = EvUpdated(pass[p].result, pass[p].remoteVer)
       ELSE Updates(pass[p]) = <<>>

\* C22 amended: an automatic check whose pass returns while the main window
\* exists sends indicators-updated in that step, once, as its last message
\* (after the download-complete of the pass, if any), with the remote version
\* and the result of the pass, also when the listing failed; when the window
\* does not exist at that moment no indicators-updated is sent; a check that
\* has not called the pass, or whose pass has not returned, has sent none.
C22_UpdatedAfterReturn ==
  [][\A p \in Passes :
       pass'[p].kind = "auto"
       => LET r == pass'[p]
              upd == EvUpdated(r.result, r.remoteVer)
          IN IF PassReturned(r)
             THEN /\ pass[p].pc # "done"
                     => /\ Updates(pass[p]) = <<>>
                        /\ Updates(r) = IF mainWindow THEN <<upd>> ELSE <<>>
                  /\ Updates(r) # <<>>
                     => /\ Updates(r) = <<upd>>
                        /\ r.events[Len(r.events)] = upd
                        /\ TruthyV(r.remoteVer)
                        /\ r.installedVer # r.remoteVer
             ELSE Updates(r) = <<>>]_vars

C22_Witness ==
  \E p \in Passes :
    /\ PassReturned(pass[p])
    /\ pass[p].listResp = "timeout"
    /\ pass[p].result = FailResult(ErrMessage)
    /\ pass[p].events = <<EvComplete(pass[p].result),
                          EvUpdated(pass[p].result, <<"2">>)>>

\* C23: an automatic check whose version request errors, times out or
\* answers a blank text returns there: the version request is its only
\* request, the credential store is not read, no message is sent nor dropped,
\* no pass is called, and no directory, marker, file or stored token changes.
C23_NoRemoteVersion ==
  [][\A p \in Passes :
       (Compares(p) /\ pass'[p].remoteVer \in {NullV, <<>>})
       => /\ pass'[p].pc = "done"
          /\ pass'[p].reqs = <<ReqVersion>>
          /\ pass'[p].credReads = 0
          /\ pass'[p].events = <<>>
          /\ ~pass'[p].dropped
          /\ pass'[p].result = NoResult
          /\ pass'[p].installedVer = Unread
          /\ UNCHANGED <<dirs, marker, files, stored>>]_vars

C23_Witness ==
  \E p \in Passes :
    /\ pass[p].kind = "auto"
    /\ pass[p].pc = "done"
    /\ pass[p].remoteVer = <<>>
    /\ pass[p].reqs = <<ReqVersion>>
    /\ mainWindow
    /\ \E d \in Roots : marker[d] # NoMarker /\ files[d][PathA] # NoFile

\* The checks in flight that trigger t started.
StartedBy(t) == {p \in Passes : pass[p].trigger = t}

\* C24 as stated: in production the load of the module starts one automatic
\* check and each elapsed interval starts one; in development no automatic
\* check is started.
C24_TriggerDiscipline ==
  /\ isDev => \A p \in Passes : pass[p].kind # "auto"
  /\ \A t \in {"load", "timer"} : Cardinality(StartedBy(t)) <= 1

\* The indicator files present under root d.
Installed(d) == {f \in IndicatorPaths : files[d][f] # NoFile}

====
